---- MODULE Spec2Model ----
(***************************************************************************)
(* A model of the two maintenance scripts of the gallery website:          *)
(*   scripts/rename_photos_by_caption.py  (the Caption Renamer)            *)
(*   scripts/apply_gallery_tags.py        (the Tag Applier)                *)
(* Text (file names, captions, CSV fields) is a sequence of one-character  *)
(* strings, so that formatting, trimming and sanitizing are computed.      *)
(***************************************************************************)
EXTENDS Integers, Sequences, FiniteSets, TLC

VARIABLES
    \* ---- Caption Renamer: the environment
    dir,        \* the directory: entry name -> kind of entry
    dir0,       \* the directory as it was when the run started
    apiKey,     \* os.getenv(args.env_var) is set
    folderOk,   \* os.path.isdir(folder)
    dirWritable,\* the directory allows os.rename
    dryRun,     \* args.dry_run
    \* ---- Caption Renamer: one record of locals per running process
    pc, listing, idx, name, ext, caption, new_path, out, exitCode,
    \* ---- Tag Applier
    csvExists,  \* gallery-tags.csv is there
    csvHeaders, \* reader.fieldnames
    csvRows,    \* the data rows as the reader yields them
    htmlFile,   \* the text of gallery.html
    htmlFile0,  \* the text of gallery.html before the first run
    tpc, rows, cards_html, html, printed,
    htmlIn,     \* what the current run read from gallery.html
    htmlWasRead,\* gallery.html has been opened by some run
    written,    \* the texts written to gallery.html, one per finished run
    runs        \* runs started after the first

renVars == <<dir, dir0, apiKey, folderOk, dirWritable, dryRun,
             pc, listing, idx, name, ext, caption, new_path, out, exitCode>>
tagVars == <<csvExists, csvHeaders, csvRows, htmlFile, htmlFile0,
             tpc, rows, cards_html, html, printed, htmlIn, htmlWasRead, written, runs>>
vars == <<renVars, tagVars>>

(***************************************************************************)
(* Bounds of the model.                                                    *)
(***************************************************************************)
\* most entries in the directory a run starts from
MaxEntries == 3
\* most data rows of the CSV file
MaxRows == 2
\* most runs of the Tag Applier in a row
MaxRuns == 3

(***************************************************************************)
(* Text.                                                                   *)
(***************************************************************************)
Digits == <<"0", "1", "2", "3", "4", "5", "6", "7", "8", "9">>
Upper == <<"A", "B", "C", "D", "E", "F", "G", "H", "I", "J", "K", "L", "M",
           "N", "O", "P", "Q", "R", "S", "T", "U", "V", "W", "X", "Y", "Z">>
LowerSeq == <<"a", "b", "c", "d", "e", "f", "g", "h", "i", "j", "k", "l", "m",
              "n", "o", "p", "q", "r", "s", "t", "u", "v", "w", "x", "y", "z">>
\* the characters of the model in code-point order
AsciiOrder == <<" ", "!", ".">> \o Digits \o Upper \o <<"_">> \o LowerSeq

Range(s) == {s[i] : i \in 1..Len(s)}
Code(c) == CHOOSE i \in 1..Len(AsciiOrder) : AsciiOrder[i] = c
IsLowerAlnum(c) == c \in Range(LowerSeq) \cup Range(Digits)

\* str.lower() on one character
LowerChar(c) ==
    IF c \in Range(Upper) THEN LowerSeq[CHOOSE i \in 1..Len(Upper) : Upper[i] = c] ELSE c
\* str.upper() on one character
UpperChar(c) ==
    IF c \in Range(LowerSeq) THEN Upper[CHOOSE i \in 1..Len(LowerSeq) : LowerSeq[i] = c] ELSE c
ToLower(s) == [i \in 1..Len(s) |-> LowerChar(s[i])]

RECURSIVE LStrip(_, _)
LStrip(s, c) == IF s # <<>> /\ Head(s) = c THEN LStrip(Tail(s), c) ELSE s
RECURSIVE RStrip(_, _)
RStrip(s, c) ==
    IF s # <<>> /\ s[Len(s)] = c THEN RStrip(SubSeq(s, 1, Len(s) - 1), c) ELSE s
\* str.strip(c); str.strip() is StripChar(s, " ")
StripChar(s, c) == RStrip(LStrip(s, c), c)

\* string comparison, as sorted() compares names
RECURSIVE LexLess(_, _)
LexLess(s, t) ==
    IF t = <<>> THEN FALSE
    ELSE IF s = <<>> THEN TRUE
    ELSE IF Head(s) = Head(t) THEN LexLess(Tail(s), Tail(t))
    ELSE Code(Head(s)) < Code(Head(t))

RECURSIVE Sorted(_)
Sorted(S) ==
    IF S = {} THEN <<>>
    ELSE LET m == CHOOSE x \in S : \A y \in S \ {x} : LexLess(x, y)
         IN  <<m>> \o Sorted(S \ {m})

(***************************************************************************)
(* Caption Renamer: the pure functions.                                    *)
(***************************************************************************)
Str_jpg == <<".", "j", "p", "g">>
Str_png == <<".", "p", "n", "g">>
IMAGE_EXTS ==
    { Str_jpg, <<".", "j", "p", "e", "g">>, Str_png, <<".", "w", "e", "b", "p">>,
      <<".", "b", "m", "p">>, <<".", "t", "i", "f", "f">>, <<".", "g", "i", "f">> }

\* re.sub(r"[^a-z0-9]+", "_", text): each maximal run of other characters
\* becomes one underscore
RECURSIVE SubNonAlnum(_)
SubNonAlnum(s) ==
    IF s = <<>> THEN <<>>
    ELSE IF IsLowerAlnum(Head(s)) THEN <<Head(s)>> \o SubNonAlnum(Tail(s))
    ELSE LET rest == Tail(s)
         IN  IF rest # <<>> /\ ~IsLowerAlnum(Head(rest))
             THEN SubNonAlnum(rest)
             ELSE <<"_">> \o SubNonAlnum(rest)

\* re.sub(r"_+", "_", text)
RECURSIVE SubUnderscores(_)
SubUnderscores(s) ==
    IF s = <<>> THEN <<>>
    ELSE IF Head(s) = "_" /\ Tail(s) # <<>> /\ Head(Tail(s)) = "_"
    THEN SubUnderscores(Tail(s))
    ELSE <<Head(s)>> \o SubUnderscores(Tail(s))

Str_image == <<"i", "m", "a", "g", "e">>

sanitize_caption(text) ==
    LET t1 == ToLower(StripChar(text, " "))
        t2 == SubNonAlnum(t1)
        t3 == StripChar(SubUnderscores(t2), "_")
    IN  IF t3 = <<>> THEN Str_image ELSE t3

\* A response of the service. An absent (None) text and an empty one are both
\* <<>>: the code only tests their truth value.
\*   [raises, output_text, output], output a sequence of items [type, content],
\*   content a sequence of parts [type, text]
extract_output_text(resp) ==
    IF resp.output_text # <<>> THEN resp.output_text
    ELSE LET hits == UNION { { <<i, j>> : j \in { k \in 1..Len(resp.output[i].content) :
                                      resp.output[i].content[k].type = "output_text" } } :
                             i \in { k \in 1..Len(resp.output) :
                                       resp.output[k].type = "message" } }
         IN  IF hits = {} THEN <<>>
             ELSE LET f == CHOOSE ij \in hits :
                              \A kl \in hits :
                                  \/ ij[1] < kl[1]
                                  \/ (ij[1] = kl[1] /\ ij[2] <= kl[2])
                  IN  resp.output[f[1]].content[f[2]].text

\* caption_image: [ok |-> FALSE] when client.responses.create raises or no text
\* is extracted (RuntimeError), else the stripped text
caption_image(resp) ==
    IF resp.raises THEN [ok |-> FALSE, text |-> <<>>]
    ELSE LET text == extract_output_text(resp)
         IN  IF text = <<>> THEN [ok |-> FALSE, text |-> <<>>]
             ELSE [ok |-> TRUE, text |-> StripChar(text, " ")]

\* the kinds of directory entry: a regular file, a regular file that cannot
\* be opened for reading, a subdirectory, a symbolic link whose target is
\* missing
Kinds == {"file", "unreadable", "dir", "link"}

\* os.path.exists follows symbolic links: False for a dangling link
os_path_exists(d, n) == n \in DOMAIN d /\ d[n] # "link"
\* os.path.isfile follows symbolic links too
os_path_isfile(d, n) == n \in DOMAIN d /\ d[n] \in {"file", "unreadable"}

\* the decimal digits of i
RECURSIVE Dec(_)
Dec(i) == IF i < 10 THEN <<Digits[i + 1]>> ELSE Dec(i \div 10) \o <<Digits[(i % 10) + 1]>>
\* f"{i:02d}"
Fmt02d(i) == IF i < 10 THEN <<"0">> \o Dec(i) ELSE Dec(i)

Candidate(base, e, i) == base \o <<"_">> \o Fmt02d(i) \o e

\* a slip: the loop tests the candidate before the one it returns
ProbeFrom_OffByOne(d, base, e, i) ==
    LET n == CHOOSE k \in i..(i + Cardinality(DOMAIN d) + 1) :
                /\ ~os_path_exists(d, Candidate(base, e, k))
                /\ \A j \in i..(k - 1) : os_path_exists(d, Candidate(base, e, j))
    IN  Candidate(base, e, n + 1)

RECURSIVE ProbeFrom(_, _, _, _)
ProbeFrom(d, base, e, i) ==
    IF ~os_path_exists(d, Candidate(base, e, i)) THEN Candidate(base, e, i)
    ELSE ProbeFrom(d, base, e, i + 1)

\* a slip: the first name is returned without looking at the directory
unique_path_NoProbe(d, base, e) == base \o e

\* a slip: a taken first name is answered with _02, whether taken or not
unique_path_OneProbe(d, base, e) ==
    IF ~os_path_exists(d, base \o e) THEN base \o e ELSE Candidate(base, e, 2)

unique_path(d, base, e) ==
    IF ~os_path_exists(d, base \o e) THEN base \o e
    ELSE ProbeFrom(d, base, e, 2)

\* os.path.splitext(name)[1]: from the last dot, unless only dots precede it
SplitExt(n) ==
    LET dots == {i \in 1..Len(n) : n[i] = "."}
    IN  IF dots = {} THEN <<>>
        ELSE LET last == CHOOSE i \in dots : \A j \in dots : j <= i
             IN  IF \A j \in 1..(last - 1) : n[j] = "." THEN <<>>
                 ELSE SubSeq(n, last, Len(n))

\* iter_images keeps an entry: not hidden, a regular file, an image extension
Qualifies(d, n) ==
    /\ ~(n # <<>> /\ Head(n) = ".")
    /\ os_path_isfile(d, n)
    /\ ToLower(SplitExt(n)) \in IMAGE_EXTS

\* os.rename(src, dst) raises: no such source, the destination is a
\* directory, or the directory does not allow it
os_rename_raises(d, w, src, dst) ==
    \/ ~w
    \/ src \notin DOMAIN d
    \/ (dst \in DOMAIN d /\ d[dst] = "dir")

\* os.rename(src, dst): the entry moves; an entry at dst is replaced
os_rename(d, src, dst) ==
    [n \in (DOMAIN d \ {src}) \cup {dst} |-> IF n = dst THEN d[src] ELSE d[n]]

(***************************************************************************)
(* Caption Renamer: the inputs of the model.                               *)
(***************************************************************************)
Name_a == <<"a">> \o Str_jpg
Name_a02 == <<"a", "_", "0", "2">> \o Str_jpg
Name_B == <<"B", ".", "P", "N", "G">>
Name_hidden == <<".", "h">> \o Str_jpg
Name_txt == <<"n", ".", "t", "x", "t">>
NamePool == {Name_a, Name_a02, Name_B, Name_hidden, Name_txt}

\* the directories a run may start from
Directories ==
    UNION { [S -> Kinds] : S \in {T \in SUBSET NamePool : Cardinality(T) <= MaxEntries} }

NoItems == <<>>
Part(t, x) == [type |-> t, text |-> x]
Item(t, c) == [type |-> t, content |-> c]
\* what client.responses.create may do
Responses ==
    { [raises |-> TRUE, output_text |-> <<>>, output |-> NoItems],
      [raises |-> FALSE, output_text |-> <<>>, output |-> NoItems],
      [raises |-> FALSE, output_text |-> <<>>,
       output |-> <<Item("message", <<Part("refusal", <<"n", "o">>)>>)>>],
      [raises |-> FALSE, output_text |-> <<" ", "A", "!">>, output |-> NoItems],
      [raises |-> FALSE, output_text |-> <<>>,
       output |-> <<Item("reasoning", <<>>),
                    Item("message", <<Part("refusal", <<>>),
                                      Part("output_text", <<"a", " ", "0", "2">>)>>)>>],
      [raises |-> FALSE, output_text |-> <<"!">>, output |-> NoItems] }

Procs == {1, 2}
NoName == <<>>

(***************************************************************************)
(* Caption Renamer: main(), one action per step of a process.              *)
(***************************************************************************)
Line(k, n, to) == [k |-> k, name |-> n, to |-> to]

RenInit(running) ==
    /\ dryRun \in BOOLEAN
    /\ dirWritable \in BOOLEAN
    /\ \/ apiKey = TRUE /\ folderOk = TRUE /\ dir \in Directories
       \/ apiKey = FALSE /\ folderOk \in BOOLEAN /\ dir = <<>>
       \/ apiKey = TRUE /\ folderOk = FALSE /\ dir = <<>>
    /\ dir0 = dir
    /\ pc = [p \in Procs |-> IF p \in running THEN "start" ELSE "off"]
    /\ listing = [p \in Procs |-> <<>>]
    /\ idx = [p \in Procs |-> 0]
    /\ name = [p \in Procs |-> NoName]
    /\ ext = [p \in Procs |-> <<>>]
    /\ caption = [p \in Procs |-> <<>>]
    /\ new_path = [p \in Procs |-> NoName]
    /\ out = [p \in Procs |-> <<>>]
    /\ exitCode = [p \in Procs |-> -1]

\* lines 104-113: the configuration checks
Start(p) ==
    /\ pc[p] = "start"
    /\ IF ~apiKey \/ ~folderOk
       THEN /\ pc' = [pc EXCEPT ![p] = "failed"]
            /\ exitCode' = [exitCode EXCEPT ![p] = 1]
            /\ out' = [out EXCEPT ![p] = Append(@, Line("FATAL", NoName, NoName))]
       ELSE /\ pc' = [pc EXCEPT ![p] = "list"]
            /\ UNCHANGED <<exitCode, out>>
    /\ UNCHANGED tagVars
    /\ UNCHANGED <<dir, dir0, apiKey, folderOk, dirWritable, dryRun,
                   listing, idx, name, ext, caption, new_path>>

\* line 83: sorted(os.listdir(folder)), taken once when the loop starts
ListDir(p) ==
    /\ pc[p] = "list"
    /\ listing' = [listing EXCEPT ![p] = Sorted(DOMAIN dir)]
    /\ idx' = [idx EXCEPT ![p] = 1]
    /\ pc' = [pc EXCEPT ![p] = "iter"]
    /\ UNCHANGED tagVars
    /\ UNCHANGED <<dir, dir0, apiKey, folderOk, dirWritable, dryRun,
                   name, ext, caption, new_path, out, exitCode>>

\* lines 83-91 and 138: the generator looks at the next listed name, the
\* entry as it is now; after the last one main returns 0
Iter(p) ==
    /\ pc[p] = "iter"
    /\ IF idx[p] > Len(listing[p])
       THEN /\ pc' = [pc EXCEPT ![p] = "done"]
            /\ exitCode' = [exitCode EXCEPT ![p] = 0]
            /\ UNCHANGED <<idx, name, ext>>
       ELSE LET n == listing[p][idx[p]]
            IN  IF Qualifies(dir, n)
                THEN /\ name' = [name EXCEPT ![p] = n]
                     /\ ext' = [ext EXCEPT ![p] = ToLower(SplitExt(n))]
                     /\ pc' = [pc EXCEPT ![p] = "read"]
                     /\ UNCHANGED <<idx, exitCode>>
                ELSE /\ idx' = [idx EXCEPT ![p] = @ + 1]
                     /\ UNCHANGED <<pc, name, ext, exitCode>>
    /\ UNCHANGED tagVars
    /\ UNCHANGED <<dir, dir0, apiKey, folderOk, dirWritable, dryRun,
                   listing, caption, new_path, out>>

\* line 116, build_data_url: open(path, "rb") outside the try; an OSError
\* ends the process with a traceback and status 1
Read(p) ==
    /\ pc[p] = "read"
    /\ IF name[p] \in DOMAIN dir /\ dir[name[p]] = "file"
       THEN /\ pc' = [pc EXCEPT ![p] = "caption"]
            /\ UNCHANGED exitCode
       ELSE /\ pc' = [pc EXCEPT ![p] = "crashed"]
            /\ exitCode' = [exitCode EXCEPT ![p] = 1]
    /\ UNCHANGED tagVars
    /\ UNCHANGED <<dir, dir0, apiKey, folderOk, dirWritable, dryRun,
                   listing, idx, name, ext, caption, new_path, out>>

\* a slip: the handler of a failed caption returns instead of continuing
CaptionAborting(p) ==
    /\ pc[p] = "caption"
    /\ \E resp \in Responses :
          LET r == caption_image(resp)
          IN  IF r.ok
              THEN /\ caption' = [caption EXCEPT ![p] = r.text]
                   /\ pc' = [pc EXCEPT ![p] = "probe"]
                   /\ UNCHANGED <<idx, out, exitCode>>
              ELSE /\ out' = [out EXCEPT ![p] = Append(@, Line("ERROR", name[p], NoName))]
                   /\ pc' = [pc EXCEPT ![p] = "done"]
                   /\ exitCode' = [exitCode EXCEPT ![p] = 0]
                   /\ UNCHANGED <<idx, caption>>
    /\ UNCHANGED tagVars
    /\ UNCHANGED <<dir, dir0, apiKey, folderOk, dirWritable, dryRun,
                   listing, name, ext, new_path>>

\* lines 117-121: the service call; a failure is printed and the loop goes on
Caption(p) ==
    /\ pc[p] = "caption"
    /\ \E resp \in Responses :
          LET r == caption_image(resp)
          IN  IF r.ok
              THEN /\ caption' = [caption EXCEPT ![p] = r.text]
                   /\ pc' = [pc EXCEPT ![p] = "probe"]
                   /\ UNCHANGED <<idx, out>>
              ELSE /\ out' = [out EXCEPT ![p] = Append(@, Line("ERROR", name[p], NoName))]
                   /\ idx' = [idx EXCEPT ![p] = @ + 1]
                   /\ pc' = [pc EXCEPT ![p] = "iter"]
                   /\ UNCHANGED caption
    /\ UNCHANGED tagVars
    /\ UNCHANGED <<dir, dir0, apiKey, folderOk, dirWritable, dryRun,
                   listing, name, ext, new_path, exitCode>>

\* lines 123-127: the destination is computed; equal to the source, the file
\* is skipped
Probe(p) ==
    /\ pc[p] = "probe"
    /\ LET np == unique_path(dir, sanitize_caption(caption[p]), ext[p])
       IN  /\ new_path' = [new_path EXCEPT ![p] = np]
           /\ IF np = name[p]
              THEN /\ out' = [out EXCEPT ![p] = Append(@, Line("SKIP", name[p], NoName))]
                   /\ idx' = [idx EXCEPT ![p] = @ + 1]
                   /\ pc' = [pc EXCEPT ![p] = "iter"]
              ELSE /\ pc' = [pc EXCEPT ![p] = "rename"]
                   /\ UNCHANGED <<idx, out>>
    /\ UNCHANGED tagVars
    /\ UNCHANGED <<dir, dir0, apiKey, folderOk, dirWritable, dryRun,
                   listing, name, ext, caption, exitCode>>

\* a slip: the dry-run flag is not looked at
RenameIgnoringDryRun(p) ==
    /\ pc[p] = "rename"
    /\ IF os_rename_raises(dir, dirWritable, name[p], new_path[p])
       THEN /\ pc' = [pc EXCEPT ![p] = "crashed"]
            /\ exitCode' = [exitCode EXCEPT ![p] = 1]
            /\ UNCHANGED <<dir, idx, out>>
       ELSE /\ dir' = os_rename(dir, name[p], new_path[p])
            /\ out' = [out EXCEPT ![p] = Append(@, Line("REN", name[p], new_path[p]))]
            /\ idx' = [idx EXCEPT ![p] = @ + 1]
            /\ pc' = [pc EXCEPT ![p] = "iter"]
            /\ UNCHANGED exitCode
    /\ UNCHANGED tagVars
    /\ UNCHANGED <<dir0, apiKey, folderOk, dirWritable, dryRun,
                   listing, name, ext, caption, new_path>>

\* lines 129-136: the rename is reported (dry run) or done; os.rename is
\* outside the try, its OSError ends the process with status 1
Rename(p) ==
    /\ pc[p] = "rename"
    /\ IF dryRun
       THEN /\ out' = [out EXCEPT ![p] = Append(@, Line("DRY", name[p], new_path[p]))]
            /\ idx' = [idx EXCEPT ![p] = @ + 1]
            /\ pc' = [pc EXCEPT ![p] = "iter"]
            /\ UNCHANGED <<dir, exitCode>>
       ELSE IF os_rename_raises(dir, dirWritable, name[p], new_path[p])
       THEN /\ pc' = [pc EXCEPT ![p] = "crashed"]
            /\ exitCode' = [exitCode EXCEPT ![p] = 1]
            /\ UNCHANGED <<dir, idx, out>>
       ELSE /\ dir' = os_rename(dir, name[p], new_path[p])
            /\ out' = [out EXCEPT ![p] = Append(@, Line("REN", name[p], new_path[p]))]
            /\ idx' = [idx EXCEPT ![p] = @ + 1]
            /\ pc' = [pc EXCEPT ![p] = "iter"]
            /\ UNCHANGED exitCode
    /\ UNCHANGED tagVars
    /\ UNCHANGED <<dir0, apiKey, folderOk, dirWritable, dryRun,
                   listing, name, ext, caption, new_path>>

TagIdle ==
    /\ csvExists = FALSE /\ csvHeaders = {} /\ csvRows = <<>>
    /\ htmlFile = <<>> /\ htmlFile0 = <<>>
    /\ tpc = "off" /\ rows = <<>> /\ cards_html = <<>> /\ html = <<>>
    /\ printed = <<>> /\ htmlIn = <<>> /\ htmlWasRead = FALSE
    /\ written = <<>> /\ runs = 0

\* one Caption Renamer process on the directory
Init == RenInit({1}) /\ TagIdle
Next ==
    \E p \in Procs :
        \/ Start(p)
        \/ ListDir(p)
        \/ Iter(p)
        \/ Read(p)
        \/ Caption(p)
        \/ Probe(p)
        \/ Rename(p)
Spec == Init /\ [][Next]_vars

\* most entries in the directory two concurrent runs start from
MaxSharedEntries == 2
SharedDirectories ==
    UNION { [S -> {"file"}] :
            S \in {T \in SUBSET {Name_a, Name_a02, Name_B} :
                     Cardinality(T) <= MaxSharedEntries} }

\* two Caption Renamer processes started on the same directory
InitConcurrent ==
    /\ RenInit(Procs) /\ TagIdle
    /\ apiKey /\ folderOk /\ dirWritable
    /\ dir \in SharedDirectories
SpecConcurrent == InitConcurrent /\ [][Next]_vars

(***************************************************************************)
(* Tag Applier: text of gallery.html as a sequence of tokens. A token is   *)
(* the opening marker of the grid, a line break, a run of blanks, a        *)
(* closing </div>, a closing </main>, other text, or a line of a card.     *)
(***************************************************************************)
Tok(t, x, y) == [t |-> t, x |-> x, y |-> y]
OPEN == Tok("open", <<>>, <<>>)
NL == Tok("nl", <<>>, <<>>)
SP == Tok("sp", <<>>, <<>>)
DIV == Tok("div", <<>>, <<>>)
MAIN == Tok("main", <<>>, <<>>)
TXT == Tok("txt", <<>>, <<>>)
\* \s matches it
IsWs(tok) == tok.t \in {"nl", "sp"}

\* str.split(): the words between runs of blanks
RECURSIVE SplitWords(_)
SplitWords(s) ==
    LET t == LStrip(s, " ")
    IN  IF t = <<>> THEN <<>>
        ELSE LET cut == IF \E i \in 1..Len(t) : t[i] = " "
                        THEN (CHOOSE i \in 1..Len(t) :
                                 t[i] = " " /\ \A j \in 1..(i - 1) : t[j] # " ") - 1
                        ELSE Len(t)
             IN  <<SubSeq(t, 1, cut)>> \o SplitWords(SubSeq(t, cut + 1, Len(t)))

\* str.capitalize()
Capitalize(w) ==
    [i \in 1..Len(w) |-> IF i = 1 THEN UpperChar(w[i]) ELSE LowerChar(w[i])]

\* ' '.join(words)
RECURSIVE JoinWords(_)
JoinWords(ws) ==
    IF ws = <<>> THEN <<>>
    ELSE IF Len(ws) = 1 THEN ws[1]
    ELSE ws[1] \o <<" ">> \o JoinWords(Tail(ws))

\* name.rsplit('.', 1)[0]
BeforeLastDot(n) ==
    LET dots == {i \in 1..Len(n) : n[i] = "."}
    IN  IF dots = {} THEN n
        ELSE SubSeq(n, 1, (CHOOSE i \in dots : \A j \in dots : j <= i) - 1)

title_from_name(n) ==
    LET base == BeforeLastDot(n)
        spaced == [i \in 1..Len(base) |-> IF base[i] = "_" THEN " " ELSE base[i]]
        words == SplitWords(spaced)
    IN  JoinWords([i \in 1..Len(words) |-> Capitalize(words[i])])

\* lines 44-49: the markup of one card, from its leading line break to its
\* closing </div>
Card(filename, tag) ==
    << NL, SP, Tok("card", tag, <<>>),
       NL, SP, Tok("inner", <<>>, <<>>),
       NL, SP, Tok("img", filename, title_from_name(filename)),
       NL, SP, DIV,
       NL, SP, DIV >>

\* lines 41-52: "\n".join(cards) + "\n"
RECURSIVE JoinCards(_)
JoinCards(rs) ==
    IF rs = <<>> THEN <<>>
    ELSE IF Len(rs) = 1 THEN Card(rs[1][1], rs[1][2])
    ELSE Card(rs[1][1], rs[1][2]) \o <<NL>> \o JoinCards(Tail(rs))
CardsHtml(rs) == JoinCards(rs) \o <<NL>>

\* the first token at or after i that \s does not match (Len + 1: none)
RECURSIVE SkipWs(_, _)
SkipWs(doc, i) == IF i <= Len(doc) /\ IsWs(doc[i]) THEN SkipWs(doc, i + 1) ELSE i

\* group 3, \n\s*</div>\n\s*</main>, matched at p: the index of its last
\* token, 0 when it does not match there
CloseAt(doc, p) ==
    IF ~(p <= Len(doc) /\ doc[p] = NL) THEN 0
    ELSE LET q == SkipWs(doc, p + 1)
         IN  IF ~(q + 1 <= Len(doc) /\ doc[q] = DIV /\ doc[q + 1] = NL) THEN 0
             ELSE LET r == SkipWs(doc, q + 2)
                  IN  IF r <= Len(doc) /\ doc[r] = MAIN THEN r ELSE 0

\* the starts at which the pattern matches: the marker, then anything, then
\* group 3 somewhere later
MatchStarts(doc) ==
    { s \in 1..Len(doc) :
        doc[s] = OPEN /\ \E p \in (s + 1)..Len(doc) : CloseAt(doc, p) # 0 }

Smallest(S) == CHOOSE x \in S : \A y \in S : x <= y

\* a slip: the last place the pattern matches is taken
MatchStartLast(doc) ==
    CHOOSE s \in MatchStarts(doc) : \A t \in MatchStarts(doc) : t <= s
\* pattern.search: the leftmost match
MatchStart(doc) == Smallest(MatchStarts(doc))

\* group 2 is lazy: group 3 starts at the first place after the marker where
\* it matches
CloseStart(doc, s) == Smallest({ p \in (s + 1)..Len(doc) : CloseAt(doc, p) # 0 })

\* lines 60-61: the matched region replaced by the marker, a line break, the
\* cards and group 3
Spliced(doc, cards) ==
    LET s == MatchStart(doc)
        p == CloseStart(doc, s)
        e == CloseAt(doc, p)
    IN  SubSeq(doc, 1, s - 1) \o <<doc[s]>> \o <<NL>> \o cards
           \o SubSeq(doc, p, e) \o SubSeq(doc, e + 1, Len(doc))

\* a slip: only the first file without a tag is reported
missing_tags_FirstOnly(rs) ==
    LET all == SelectSeq(rs, LAMBDA r : r[2] = <<>>)
    IN  IF all = <<>> THEN <<>> ELSE <<all[1][1]>>
\* line 28: the names of the rows without a tag
missing_tags(rs) ==
    LET all == SelectSeq(rs, LAMBDA r : r[2] = <<>>)
    IN  [i \in 1..Len(all) |-> all[i][1]]

\* lines 18-23: the rows kept, trimmed
RECURSIVE LoadRows(_)
LoadRows(raw) ==
    IF raw = <<>> THEN <<>>
    ELSE LET filename == StripChar(Head(raw).filename, " ")
             tag == StripChar(Head(raw).tag, " ")
         IN  IF filename = <<>> THEN LoadRows(Tail(raw))
             ELSE <<(<<filename, tag>>)>> \o LoadRows(Tail(raw))

(***************************************************************************)
(* Tag Applier: the inputs of the model.                                   *)
(***************************************************************************)
Row(f, t) == [filename |-> f, tag |-> t]
RawRows ==
    { Row(<<"a", "_", "b", ".", "j", "p", "g">>, <<"x", " ">>),
      Row(<<"c", ".", "j", "p", "g">>, <<" ">>),
      Row(<<" ">>, <<"y">>),
      Row(<<" ", "d", ".", "p", "n", "g">>, <<>>),
      Row(<<"E", "_", "f", ".", "p", "n", "g">>, <<"y">>) }
RECURSIVE SeqsUpTo(_, _)
SeqsUpTo(S, n) ==
    IF n = 0 THEN {<<>>}
    ELSE LET shorter == SeqsUpTo(S, n - 1)
         IN  shorter \cup { Append(q, x) : q \in shorter, x \in S }

Region == <<OPEN, NL, SP, TXT, NL, SP, DIV, NL, MAIN>>
Templates ==
    { <<TXT, NL>> \o Region \o <<NL, TXT>>,                  \* one region
      <<TXT, NL, SP, TXT, NL, SP, DIV, NL, MAIN, NL>>,       \* no marker
      <<TXT, NL, OPEN, NL, SP, TXT, NL, SP, DIV, NL, TXT>>,  \* marker, no closing sequence
      <<TXT, NL>> \o Region \o <<NL, TXT, NL>> \o Region,    \* two regions
      <<OPEN, NL, OPEN, NL, SP, DIV, NL, SP, MAIN, NL>>,     \* the marker twice, one closing
      <<OPEN, NL, NL, SP, DIV, NL, MAIN>> }                  \* an empty region

(***************************************************************************)
(* Tag Applier: the script, one action per stage.                          *)
(***************************************************************************)
Msg(k, n) == [k |-> k, name |-> n]

RenIdle ==
    /\ dir = <<>> /\ dir0 = <<>> /\ apiKey = FALSE /\ folderOk = FALSE
    /\ dirWritable = FALSE /\ dryRun = FALSE
    /\ pc = [p \in Procs |-> "off"]
    /\ listing = [p \in Procs |-> <<>>]
    /\ idx = [p \in Procs |-> 0]
    /\ name = [p \in Procs |-> NoName]
    /\ ext = [p \in Procs |-> <<>>]
    /\ caption = [p \in Procs |-> <<>>]
    /\ new_path = [p \in Procs |-> NoName]
    /\ out = [p \in Procs |-> <<>>]
    /\ exitCode = [p \in Procs |-> -1]

InitTag ==
    /\ RenIdle
    /\ \/ /\ csvExists = TRUE
          /\ csvHeaders \in {{"filename", "tag"}, {"filename", "category"}}
          /\ csvRows \in SeqsUpTo(RawRows, MaxRows)
       \/ csvExists = FALSE /\ csvHeaders = {} /\ csvRows = <<>>
    /\ htmlFile \in Templates
    /\ htmlFile0 = htmlFile
    /\ tpc = "load" /\ rows = <<>> /\ cards_html = <<>> /\ html = <<>>
    /\ printed = <<>> /\ htmlIn = <<>> /\ htmlWasRead = FALSE
    /\ written = <<>> /\ runs = 0

\* lines 10-26: the CSV is read
LoadCsv ==
    /\ tpc = "load"
    /\ IF ~csvExists
       THEN /\ tpc' = "aborted" /\ printed' = <<Msg("csv not found", <<>>)>>
            /\ UNCHANGED rows
       ELSE IF ~({"filename", "tag"} \subseteq csvHeaders)
       THEN /\ tpc' = "aborted" /\ printed' = <<Msg("headers", <<>>)>>
            /\ UNCHANGED rows
       ELSE IF LoadRows(csvRows) = <<>>
       THEN /\ tpc' = "aborted" /\ printed' = <<Msg("no rows", <<>>)>>
            /\ rows' = <<>>
       ELSE /\ tpc' = "validate" /\ rows' = LoadRows(csvRows)
            /\ UNCHANGED printed
    /\ UNCHANGED <<csvExists, csvHeaders, csvRows, htmlFile, htmlFile0,
                   cards_html, html, htmlIn, htmlWasRead, written, runs>>
    /\ UNCHANGED renVars

\* lines 28-33: the gate; every row without a tag is named, then the script
\* exits
Validate ==
    /\ tpc = "validate"
    /\ IF missing_tags(rows) # <<>>
       THEN /\ tpc' = "aborted"
            /\ printed' = <<Msg("missing tags", <<>>)>>
                          \o [i \in 1..Len(missing_tags(rows)) |->
                                 Msg("name", missing_tags(rows)[i])]
                          \o <<Msg("fill all tags", <<>>)>>
       ELSE /\ tpc' = "generate"
            /\ UNCHANGED printed
    /\ UNCHANGED <<csvExists, csvHeaders, csvRows, htmlFile, htmlFile0, rows,
                   cards_html, html, htmlIn, htmlWasRead, written, runs>>
    /\ UNCHANGED renVars

\* lines 41-54: the cards are rendered and gallery.html is read
Generate ==
    /\ tpc = "generate"
    /\ cards_html' = CardsHtml(rows)
    /\ html' = htmlFile
    /\ htmlIn' = htmlFile
    /\ htmlWasRead' = TRUE
    /\ tpc' = "splice"
    /\ UNCHANGED <<csvExists, csvHeaders, csvRows, htmlFile, htmlFile0, rows,
                   printed, written, runs>>
    /\ UNCHANGED renVars

\* lines 55-64: the region is found and replaced, the file written
Splice ==
    /\ tpc = "splice"
    /\ IF MatchStarts(html) = {}
       THEN /\ tpc' = "aborted"
            /\ printed' = <<Msg("container not found", <<>>)>>
            /\ UNCHANGED <<html, htmlFile, written>>
       ELSE /\ html' = Spliced(html, cards_html)
            /\ htmlFile' = html'
            /\ written' = Append(written, html')
            /\ printed' = <<Msg("updated", <<>>)>>
            /\ tpc' = "done"
    /\ UNCHANGED <<csvExists, csvHeaders, csvRows, htmlFile0, rows,
                   cards_html, htmlIn, htmlWasRead, runs>>
    /\ UNCHANGED renVars

\* the script is run again, same CSV, on the file as it is now
RunAgain ==
    /\ tpc = "done"
    /\ runs < MaxRuns - 1
    /\ runs' = runs + 1
    /\ tpc' = "load" /\ rows' = <<>> /\ cards_html' = <<>> /\ html' = <<>>
    /\ printed' = <<>> /\ htmlIn' = <<>>
    /\ UNCHANGED <<csvExists, csvHeaders, csvRows, htmlFile, htmlFile0,
                   htmlWasRead, written>>
    /\ UNCHANGED renVars

NextTag ==
    \/ LoadCsv
    \/ Validate
    \/ Generate
    \/ Splice
    \/ RunAgain
SpecTag == InitTag /\ [][NextTag]_vars

(***************************************************************************)
(* Tag Applier: the claims.                                                *)
(***************************************************************************)
\* C2: a second run on the document the first run wrote, same CSV, writes a
\* document identical to the one the first run wrote.
C2_SecondRunWritesTheSame == Len(written) >= 2 => written[2] = written[1]

\* the filenames, trimmed, of the CSV rows that have a filename and no tag,
\* in the order of the rows
Offending ==
    LET kept == SelectSeq(csvRows, LAMBDA r : StripChar(r.filename, " ") # <<>>)
        bad == SelectSeq(kept, LAMBDA r : StripChar(r.tag, " ") = <<>>)
    IN  [i \in 1..Len(bad) |-> StripChar(bad[i].filename, " ")]

NamesPrinted ==
    LET ns == SelectSeq(printed, LAMBDA m : m.k = "name")
    IN  [i \in 1..Len(ns) |-> ns[i].name]

\* C3: when a retained row has an empty tag the run aborts before
\* gallery.html is read or written, and every offending filename is printed,
\* in row order.
C3_EmptyTagAbortsBeforeHtml ==
    (csvExists /\ {"filename", "tag"} \subseteq csvHeaders
        /\ Offending # <<>> /\ tpc # "load") =>
       /\ tpc \in {"validate", "aborted"}
       /\ ~htmlWasRead /\ htmlFile = htmlFile0 /\ written = <<>>
       /\ tpc = "aborted" => NamesPrinted = Offending

\* C3 witness: the run has aborted on a CSV with two rows without a tag and
\* has printed both names.
C3_Witness ==
    /\ tpc = "aborted" /\ Len(Offending) >= 2 /\ Offending[1] # Offending[2]
    /\ NamesPrinted = Offending
    /\ htmlFile = htmlFile0

Markers(doc) == { i \in 1..Len(doc) : doc[i] = OPEN }

\* C7 as claimed: the splice writes only when the anchor occurs exactly once.
C7_WritesOnlyWhenExactlyOne ==
    tpc = "done" => Cardinality(Markers(htmlIn)) = 1

\* the places of the text read where the marker is followed, later, by the
\* closing sequence
Found == { s \in Markers(htmlIn) : \E p \in (s + 1)..Len(htmlIn) : CloseAt(htmlIn, p) # 0 }
FirstFound == CHOOSE s \in Found : \A t \in Found : s <= t
FirstCloseEnd ==
    LET ps == { p \in (FirstFound + 1)..Len(htmlIn) : CloseAt(htmlIn, p) # 0 }
    IN  CloseAt(htmlIn, CHOOSE p \in ps : \A q \in ps : p <= q)

\* C7 amended: the splice fails, without writing, exactly when the pattern is
\* not found; found once or more than once, the first match is replaced and
\* the text before it and after it, later occurrences included, is kept.
C7_FailsOnlyWhenAbsent ==
    /\ (tpc = "aborted" /\ htmlIn # <<>>) => (Found = {} /\ htmlFile = htmlIn)
    /\ tpc = "done" =>
          /\ Found # {}
          /\ LET tail == Len(htmlIn) - FirstCloseEnd
             IN  /\ SubSeq(htmlFile, 1, FirstFound) = SubSeq(htmlIn, 1, FirstFound)
                 /\ SubSeq(htmlFile, Len(htmlFile) - tail + 1, Len(htmlFile))
                       = SubSeq(htmlIn, FirstCloseEnd + 1, Len(htmlIn))
                 /\ Len(htmlFile) - tail - FirstFound >= Len(cards_html) + 1
                 /\ SubSeq(htmlFile, FirstFound + 1, FirstFound + 1 + Len(cards_html))
                       = <<NL>> \o cards_html

\* C7 witness: the text read held the marker twice, each with its closing
\* sequence, and the run has written the file.
C7_Witness ==
    /\ tpc = "done" /\ Cardinality(Found) >= 2
    /\ htmlFile # htmlIn
    /\ Cardinality(Markers(htmlFile)) = Cardinality(Markers(htmlIn))

(***************************************************************************)
(* Caption Renamer: the claims.                                            *)
(***************************************************************************)
Lines(p) == Range(out[p])
HasLine(p, k) == \E l \in Lines(p) : l.k = k

\* C1: in a single sequential run every rename that is performed has a
\* destination that is no entry of the directory just before the rename: no
\* entry is replaced and the number of entries stays the same.
C1_NoEntryReplaced ==
    [][ (pc[1] = "rename" /\ dir' # dir) =>
            /\ new_path[1] \notin DOMAIN dir
            /\ Cardinality(DOMAIN dir') = Cardinality(DOMAIN dir) ]_vars

\* the names the listing holds that are image files now
Pending(p) == { n \in Range(listing[p]) : Qualifies(dir, n) }

C5_DryRunKeepsDirectory == dryRun => dir = dir0

\* C5 witness: a dry run is over and has reported a rename it computed.
C5_Witness ==
    /\ dryRun /\ pc[1] = "done"
    /\ \E l \in Lines(1) : l.k = "DRY" /\ l.to # l.name /\ l.to \notin DOMAIN dir

\* base_NN + ext, NN in two digits, written out for 2 <= i < 100
Suffixed(base, e, i) ==
    base \o <<"_", Digits[(i \div 10) + 1], Digits[(i % 10) + 1]>> \o e

C8_EveryPerFileFailureIsCaught == pc[1] # "crashed"

\* C10: in a sequential run the destination is never the file's own path,
\* and the skip-as-unchanged branch is never taken.
C10_NeverSkipped ==
    /\ ~HasLine(1, "SKIP")
    /\ pc[1] = "rename" => new_path[1] # name[1]

\* C10 witness: a.jpg, captioned "a", has been renamed to a_02.jpg.
C10_Witness ==
    /\ pc[1] = "iter" /\ sanitize_caption(caption[1]) = <<"a">>
    /\ out[1] # <<>>
    /\ out[1][Len(out[1])] = Line("REN", Name_a, Name_a02)
    /\ Name_a \in DOMAIN dir0 /\ Name_a \notin DOMAIN dir

RenamesTo(p) == { l.to : l \in { m \in Lines(p) : m.k = "REN" } }

\* C9: with two processes on one directory a rename can land on a name that
\* exists; that happens only to a name the other process has renamed a file
\* to since the probe, and entries are lost only when both processes have
\* renamed files to the same name.
C9_FilesLostOnlyByTheRace ==
    /\ \A p \in Procs :
          (pc[p] = "rename" /\ new_path[p] \in DOMAIN dir) =>
              \E q \in Procs \ {p} : new_path[p] \in RenamesTo(q)
    /\ Cardinality(DOMAIN dir) < Cardinality(DOMAIN dir0) =>
          RenamesTo(1) \cap RenamesTo(2) # {}

\* C9 witness: both processes have renamed a file to the same name and the
\* directory has an entry less than it started with.
C9_Witness ==
    /\ pc[1] = "done" /\ pc[2] = "done"
    /\ RenamesTo(1) \cap RenamesTo(2) # {}
    /\ Cardinality(DOMAIN dir) < Cardinality(DOMAIN dir0)

====
